---------------------------- MODULE Spec2Model ----------------------------
(***************************************************************************)
(* The duplex audio engine of src/yui.py (class YuiRealtime): the render   *)
(* callback (_output_callback), the capture loop (capture_audio) and the   *)
(* inbound event dispatcher (run / _on_event).                             *)
(*                                                                         *)
(* Granularity.  The render callback runs on the audio thread, the capture *)
(* loop and the dispatcher on the asyncio thread.  A step of the render    *)
(* callback runs from one loop head to the next (lines 126, 143, 183, 196),*)
(* so the other two schedules interleave with a callback in progress.  One *)
(* captured block (lines 316-341) and one session event (lines 279-280,    *)
(* 352-382) are one step each.                                             *)
(*                                                                         *)
(* Numbers.  Samples are int16.  Loudness (rms_energy, play_rms,           *)
(* recent_playback_rms) is kept in units of 1/32768, rounded down to an    *)
(* integer; the float32 products of the fade are computed exactly and then *)
(* truncated toward zero as astype(np.int16) does.                         *)
(*                                                                         *)
(* Histories.  outbound, rendered, reported, frame_lens and latch_mark     *)
(* record what the engine did and are read by no action's guard or effect  *)
(* on the engine.  A behaviour records the histories history_of names:     *)
(* none under Spec, the outbound stream under ForwardSpec, playback under  *)
(* PlaybackSpec.  StopSpec adds the end of the session to Spec.            *)
(***************************************************************************)
EXTENDS Integers, Sequences, FiniteSets

\* ---------------------------------------------------------------- bounds
\* samples per render callback and per captured block (960 in the source)
ChunkSize == 2
\* longest audio fragment a session event carries, in samples
MaxFrameLen == 5
\* session events delivered in one run
MaxEvents == 4
\* microphone blocks captured in one run
MaxBlocks == 4

\* ------------------------------------------------------ program constants
PREBUFFER_CHUNKS == 3
BARGE_IN_FRAMES_REQUIRED == 4
\* ENERGY_THRESHOLD = 0.015, in thousandths
ENERGY_THRESHOLD_MILLI == 15
\* ECHO_SUPPRESS_MULTIPLIER = 1.8, in tenths
ECHO_SUPPRESS_TENTHS == 18
\* _playback_rms_alpha = 0.2, in tenths
PLAYBACK_RMS_ALPHA_TENTHS == 2
\* the int16 full scale the loudness is normalised by
FULL_SCALE == 32768
\* np.dtype(np.int16).itemsize
bytes_per_sample == 2

None == <<>>

VARIABLES
    output_queue,          \* queue.Queue of (samples, item_id, content_index)
    interrupt_event,       \* threading.Event
    current_audio_chunk,   \* None or a (samples, item_id, content_index)
    chunk_position,
    prebuffering,
    fading,
    fade_total_samples,
    fade_done_samples,
    fade_samples,          \* the configured fade length, in samples
    barge_in_mode,         \* "rms" or "server"
    recent_playback_rms,
    vad_active_frames,
    outdata,               \* the output buffer of the callback in progress / last run
    samples_filled,        \* the callback's local samples_filled
    render_pc,             \* position of the render callback
    event,                 \* the session event last delivered to _on_event
    event_count,           \* events delivered so far
    dispatching,           \* the "async for event in session" loop is running
    mic_rms,               \* capture_audio's local: loudness of the block last read
    assistant_playing,     \* capture_audio's local, as of the block last read
    blocks_read,           \* blocks captured so far
    enqueued_total,        \* history: frames put into output_queue so far
    qualifying_run,        \* history: consecutive qualifying blocks just captured
    after_fade,            \* history: a fade completed and nothing was enqueued since
    history_of,            \* which of the histories below this behaviour records
    outbound,              \* history: numbers of the blocks given to send_audio, in order
    rendered,              \* history: <<item_id, index>> of every frame sample written
    reported,              \* history: the calls of on_play_bytes, as <<id, content, bytes>>
    frame_lens,            \* history: the length of every frame enqueued, by item_id
    latch_mark,            \* history: None, or <<enqueued_total>> as the latch was last set
    recording,             \* the flag capture_audio's loop tests
    audio_player,          \* the render stream: "active" or "closed"
    audio_stream,          \* the capture stream: "active" or "closed"
    capture_pc             \* capture_audio: "loop", or how it was left

vars == <<output_queue, interrupt_event, current_audio_chunk, chunk_position,
          prebuffering, fading, fade_total_samples, fade_done_samples,
          fade_samples, barge_in_mode, recent_playback_rms, vad_active_frames,
          outdata, samples_filled, render_pc, event, event_count, dispatching,
          mic_rms, assistant_playing, blocks_read, enqueued_total, qualifying_run,
          after_fade, history_of, outbound, rendered, reported, frame_lens,
          latch_mark, recording, audio_player, audio_stream,
          capture_pc>>

renderVars == <<current_audio_chunk, chunk_position, fading, fade_total_samples,
                fade_done_samples, recent_playback_rms, outdata, samples_filled,
                render_pc, after_fade, rendered, reported>>
captureVars == <<vad_active_frames, mic_rms, assistant_playing, blocks_read,
                 qualifying_run, outbound>>
dispatchVars == <<event, event_count, dispatching, enqueued_total, frame_lens>>
lifecycleVars == <<recording, audio_player, audio_stream, capture_pc>>
configVars == <<fade_samples, barge_in_mode, history_of, lifecycleVars>>

\* ------------------------------------------------------------ arithmetic
Min(a, b) == IF a <= b THEN a ELSE b
Max(a, b) == IF a >= b THEN a ELSE b

\* float -> int16 conversion of astype(np.int16): truncation toward zero
TruncDiv(a, b) == IF a >= 0 THEN a \div b ELSE -((-a) \div b)

RECURSIVE SumSquares(_)
SumSquares(s) == IF s = <<>> THEN 0 ELSE Head(s) * Head(s) + SumSquares(Tail(s))

RECURSIVE IsqrtSearch(_, _, _)
IsqrtSearch(n, lo, hi) ==
    IF lo >= hi THEN lo
    ELSE LET mid == (lo + hi + 1) \div 2
         IN IF mid * mid <= n THEN IsqrtSearch(n, mid, hi)
                              ELSE IsqrtSearch(n, lo, mid - 1)

\* floor of the square root
Isqrt(n) == IsqrtSearch(n, 0, FULL_SCALE)

\* sqrt(mean((x / 32768) ** 2)), in units of 1/32768; 0.0 for an empty block
rms_energy(samples) ==
    IF Len(samples) = 0 THEN 0
    ELSE Isqrt(SumSquares(samples) \div Len(samples))

\* (1 - alpha) * recent + alpha * play_rms
EmaUpdate(recent, play_rms) ==
    ((10 - PLAYBACK_RMS_ALPHA_TENTHS) * recent + PLAYBACK_RMS_ALPHA_TENTHS * play_rms) \div 10

\* outdata[at : at + Len(part)] = part (0-based at)
WriteAt(buf, at, part) ==
    [i \in 1..Len(buf) |->
        IF i > at /\ i <= at + Len(part) THEN part[i - at] ELSE buf[i]]

Zeros == [i \in 1..ChunkSize |-> 0]

\* ------------------------------------------------------------ PCM frames
ToInt16(u) == IF u >= FULL_SCALE THEN u - 2 * FULL_SCALE ELSE u
ToUint16(x) == IF x < 0 THEN x + 2 * FULL_SCALE ELSE x

\* np.frombuffer(data, dtype=np.int16) on a little-endian byte string of even length
frombuffer(data) ==
    [i \in 1..(Len(data) \div 2) |-> ToInt16(data[2 * i - 1] + 256 * data[2 * i])]

\* ndarray.tobytes() of an int16 array
tobytes(samples) ==
    [i \in 1..(bytes_per_sample * Len(samples)) |->
        LET u == ToUint16(samples[(i + 1) \div 2])
        IN IF i % 2 = 1 THEN u % 256 ELSE u \div 256]

\* the i-th sample of a fragment the session synthesises
SpeechSample(i) == IF i % 2 = 1 THEN 12000 ELSE -6000

SpeechPCM(n) == [i \in 1..n |-> SpeechSample(i)]

\* fragment lengths the session delivers: empty, and longer than two callbacks
FrameLens == {0, MaxFrameLen}

\* ---------------------------------------------------------- session events
\* the content index the session gives the fragment with this id
ContentIndex(id) == id % 2

AudioEvent(data, id) ==
    [type |-> "audio", data |-> data, item_id |-> id, content_index |-> ContentIndex(id)]

PlainEvent(type) ==
    [type |-> type, data |-> <<>>, item_id |-> 0, content_index |-> 0]

NoEvent == PlainEvent("none")

\* the events the session may deliver next: a well-formed audio fragment, one
\* whose payload has an odd number of bytes, audio_interrupted, and error, which
\* stands for every kind _on_event only prints (lines 354-365, 373-380)
SessionEvents(id) ==
    {AudioEvent(tobytes(SpeechPCM(n)), id) : n \in FrameLens}
    \cup {AudioEvent(<<1>>, id)}
    \cup {PlainEvent(t) : t \in {"audio_interrupted", "error"}}

\* ------------------------------------------------------------------ init
\* configured fade lengths: within a frame, and longer than any frame
FadeLengths == {ChunkSize, MaxFrameLen + 1}

\* the engine after __init__, with every history empty, as run reaches its
\* dispatch loop (line 279): lines 248-277 have started both streams and the
\* capture task, and changed no other field
Constructed ==
    /\ output_queue = <<>>
    /\ interrupt_event = FALSE
    /\ current_audio_chunk = None
    /\ chunk_position = 0
    /\ prebuffering = TRUE
    /\ fading = FALSE
    /\ fade_total_samples = 0
    /\ fade_done_samples = 0
    /\ fade_samples \in FadeLengths
    /\ barge_in_mode \in {"rms", "server"}
    /\ recent_playback_rms = 0
    /\ vad_active_frames = 0
    /\ outdata = Zeros
    /\ samples_filled = 0
    /\ render_pc = "idle"
    /\ event = NoEvent
    /\ event_count = 0
    /\ dispatching = TRUE
    /\ mic_rms = 0
    /\ assistant_playing = FALSE
    /\ blocks_read = 0
    /\ enqueued_total = 0
    /\ qualifying_run = 0
    /\ after_fade = FALSE
    /\ outbound = <<>>
    /\ rendered = <<>>
    /\ reported = <<>>
    /\ frame_lens = <<>>
    /\ latch_mark = None
    /\ recording = TRUE
    /\ audio_player = "active"
    /\ audio_stream = "active"
    /\ capture_pc = "loop"

Init == Constructed /\ history_of = "none"

\* ------------------------------------------------------- render callback
\* a fade length that ignores what is left of the frame
FadeTotalConfigured(configured, remaining_in_chunk) == configured

\* a fade length taken from the frame's length, not from what is left of it
FadeTotalWholeChunk(configured, remaining_in_chunk) ==
    Min(configured, Len(current_audio_chunk[1]))

\* line 139: min(self.fade_samples, max(0, remaining_in_chunk))
FadeTotal(configured, remaining_in_chunk) == Min(configured, Max(0, remaining_in_chunk))

\* np.clip(x, -32768.0, 32767.0)
Clip(x) == Max(-FULL_SCALE, Min(FULL_SCALE - 1, x))

\* a gain that rises with the offset
GainNumeratorRising(k, total) == k

\* lines 151-154: gain of the fade's k-th sample, as numerator over fade_total_samples
GainNumerator(k, total) == total - k

\* lines 150-155: src * (1 - idx / total), clipped and converted to int16
Ramp(src, done, total) ==
    [i \in 1..Len(src) |->
        Clip(TruncDiv(src[i] * GainNumerator(done + i - 1, total), total))]

\* samples[a : a + n]: a Python slice stops at the end of the array
PySlice(s, a, n) == SubSeq(s, a + 1, Min(Len(s), a + n))

\* a report that counts samples where bytes are expected
PlayedInSamples(chunk, position, written) ==
    IF history_of = "playback"
    THEN /\ rendered' =
                rendered \o [i \in 1..Len(written) |-> <<chunk[2], position + i>>]
         /\ reported' = Append(reported, <<chunk[2], chunk[3], Len(written)>>)
    ELSE UNCHANGED <<rendered, reported>>

\* lines 156 and 168-174, 217 and 231-239: the samples written from position on
\* are part of what was rendered, and are reported by one call of on_play_bytes
\* with the frame's ids and the bytes of the samples
Played(chunk, position, written) ==
    IF history_of = "playback"
    THEN /\ rendered' =
                rendered \o [i \in 1..Len(written) |-> <<chunk[2], position + i>>]
         /\ reported' = Append(reported, <<chunk[2], chunk[3], Len(tobytes(written))>>)
    ELSE UNCHANGED <<rendered, reported>>

\* a latch that is not looked at while the pre-buffer is armed
InterruptedUnlessPrebuffering == interrupt_event /\ ~prebuffering

\* line 123: self.interrupt_event.is_set()
Interrupted == interrupt_event

\* lines 118-142 and 194-195: up to the first loop head of the path taken
RenderBegin ==
    /\ audio_player = "active"
    /\ render_pc = "idle"
    /\ outdata' = Zeros
    /\ samples_filled' = 0
    /\ IF Interrupted
       THEN IF current_audio_chunk = None
            THEN /\ render_pc' = "flush"
                 /\ UNCHANGED <<fading, fade_total_samples, fade_done_samples>>
            ELSE /\ render_pc' = "fade"
                 /\ IF ~fading
                    THEN /\ fading' = TRUE
                         /\ fade_done_samples' = 0
                         /\ fade_total_samples' =
                                FadeTotal(fade_samples,
                                          Len(current_audio_chunk[1]) - chunk_position)
                    ELSE UNCHANGED <<fading, fade_total_samples, fade_done_samples>>
       ELSE /\ render_pc' = "fill"
            /\ UNCHANGED <<fading, fade_total_samples, fade_done_samples>>
    /\ UNCHANGED <<output_queue, interrupt_event, current_audio_chunk, chunk_position,
                   prebuffering, recent_playback_rms, after_fade, rendered, reported>>
    /\ UNCHANGED <<captureVars, dispatchVars, configVars, latch_mark>>

\* a drain loop that gives up after its first round
QueueDrainedAtOnce == TRUE

\* lines 126 and 183: the test that ends "while not self.output_queue.empty()"
QueueDrained == output_queue = <<>>

\* lines 126-130 and 183-187: one round of the drain loop, which discards a frame
\* unless the queue is empty
DiscardOne ==
    IF output_queue # <<>>
    THEN output_queue' = Tail(output_queue)
    ELSE output_queue' = output_queue

\* lines 126-133: interruption with no frame in flight
FlushStep ==
    /\ render_pc = "flush"
    /\ DiscardOne
    /\ IF ~QueueDrained
       THEN UNCHANGED <<prebuffering, interrupt_event, render_pc>>
       ELSE /\ prebuffering' = TRUE
            /\ interrupt_event' = FALSE
            /\ render_pc' = "idle"
    /\ UNCHANGED <<current_audio_chunk, chunk_position, fading, fade_total_samples,
                   fade_done_samples, recent_playback_rms, outdata, samples_filled,
                   after_fade, rendered, reported>>
    /\ UNCHANGED <<captureVars, dispatchVars, configVars, latch_mark>>

\* lines 143-182 and 191: one test of the fade loop, with its body or its exit
FadeIter ==
    /\ render_pc = "fade"
    /\ IF samples_filled < Len(outdata) /\ fade_done_samples < fade_total_samples
       THEN LET remaining_output == Len(outdata) - samples_filled
                remaining_fade == fade_total_samples - fade_done_samples
                n == Min(remaining_output, remaining_fade)
                src == PySlice(current_audio_chunk[1], chunk_position, n)
                ramped == Ramp(src, fade_done_samples, fade_total_samples)
            IN /\ outdata' = WriteAt(outdata, samples_filled, ramped)
               /\ recent_playback_rms' =
                      EmaUpdate(recent_playback_rms, rms_energy(ramped))
               /\ samples_filled' = samples_filled + n
               /\ chunk_position' = chunk_position + n
               /\ fade_done_samples' = fade_done_samples + n
               /\ Played(current_audio_chunk, chunk_position, ramped)
               /\ UNCHANGED <<current_audio_chunk, render_pc>>
       ELSE /\ IF fade_done_samples >= fade_total_samples
               THEN /\ current_audio_chunk' = None
                    /\ chunk_position' = 0
                    /\ render_pc' = "fade_flush"
               ELSE /\ render_pc' = "idle"
                    /\ UNCHANGED <<current_audio_chunk, chunk_position>>
            /\ UNCHANGED <<outdata, recent_playback_rms, samples_filled,
                           fade_done_samples, rendered, reported>>
    /\ UNCHANGED <<output_queue, interrupt_event, prebuffering, fading,
                   fade_total_samples, after_fade>>
    /\ UNCHANGED <<captureVars, dispatchVars, configVars, latch_mark>>

\* lines 183-191: the flush that ends a fade
FadeFlushStep ==
    /\ render_pc = "fade_flush"
    /\ DiscardOne
    /\ IF ~QueueDrained
       THEN UNCHANGED <<fading, prebuffering, interrupt_event, render_pc, after_fade>>
       ELSE /\ fading' = FALSE
            /\ prebuffering' = TRUE
            /\ interrupt_event' = FALSE
            /\ render_pc' = "idle"
            /\ after_fade' = TRUE
    /\ UNCHANGED <<current_audio_chunk, chunk_position, fade_total_samples,
                   fade_done_samples, recent_playback_rms, outdata, samples_filled,
                   rendered, reported>>
    /\ UNCHANGED <<captureVars, dispatchVars, configVars, latch_mark>>

\* a pre-buffer test that is satisfied by a single queued frame
PrebufferHoldsUntilOne == prebuffering /\ Len(output_queue) < 1

\* lines 199-202: the pre-buffer test that leaves the fill loop
PrebufferHolds == prebuffering /\ Len(output_queue) < PREBUFFER_CHUNKS

\* a frame given up one sample before its end
ExhaustedEarly(position, samples) == position + 1 >= Len(samples)

\* an underrun that arms the pre-buffer again
PrebufferingRearmed == TRUE

\* lines 204-208: pre-buffering is off when get_nowait finds the queue empty
PrebufferingAfterUnderrun == FALSE

\* lines 241-243: the frame is cleared once its last sample is copied
Exhausted(position, samples) == position >= Len(samples)

\* lines 196-243: one test of the fill loop, with its body or its exit
FillIter ==
    /\ render_pc = "fill"
    /\ IF samples_filled >= Len(outdata)
       THEN /\ render_pc' = "idle"
            /\ UNCHANGED <<output_queue, prebuffering, current_audio_chunk,
                           chunk_position, outdata, samples_filled,
                           recent_playback_rms, rendered, reported>>
       ELSE IF current_audio_chunk = None /\ PrebufferHolds
       THEN /\ render_pc' = "idle"
            /\ UNCHANGED <<output_queue, prebuffering, current_audio_chunk,
                           chunk_position, outdata, samples_filled,
                           recent_playback_rms, rendered, reported>>
       ELSE IF current_audio_chunk = None /\ output_queue = <<>>
       THEN /\ prebuffering' = PrebufferingAfterUnderrun
            /\ render_pc' = "idle"
            /\ UNCHANGED <<output_queue, current_audio_chunk, chunk_position,
                           outdata, samples_filled, recent_playback_rms, rendered,
                           reported>>
       ELSE LET dequeue == current_audio_chunk = None
                chunk == IF dequeue THEN Head(output_queue) ELSE current_audio_chunk
                position == IF dequeue THEN 0 ELSE chunk_position
                samples == chunk[1]
                remaining_output == Len(outdata) - samples_filled
                remaining_chunk == Len(samples) - position
                samples_to_copy == Min(remaining_output, remaining_chunk)
                chunk_data == PySlice(samples, position, samples_to_copy)
            IN /\ output_queue' = IF dequeue THEN Tail(output_queue) ELSE output_queue
               /\ prebuffering' = IF dequeue THEN FALSE ELSE prebuffering
               /\ render_pc' = "fill"
               /\ IF samples_to_copy > 0
                  THEN /\ outdata' = WriteAt(outdata, samples_filled, chunk_data)
                       /\ samples_filled' = samples_filled + samples_to_copy
                       /\ recent_playback_rms' =
                              EmaUpdate(recent_playback_rms, rms_energy(chunk_data))
                       /\ Played(chunk, position, chunk_data)
                       /\ IF Exhausted(position + samples_to_copy, samples)
                          THEN /\ current_audio_chunk' = None
                               /\ chunk_position' = 0
                          ELSE /\ current_audio_chunk' = chunk
                               /\ chunk_position' = position + samples_to_copy
                  ELSE /\ current_audio_chunk' = chunk
                       /\ chunk_position' = position
                       /\ UNCHANGED <<outdata, samples_filled, recent_playback_rms,
                                      rendered, reported>>
    /\ UNCHANGED <<interrupt_event, fading, fade_total_samples, fade_done_samples,
                   after_fade>>
    /\ UNCHANGED <<captureVars, dispatchVars, configVars, latch_mark>>

Render == RenderBegin \/ FlushStep \/ FadeIter \/ FadeFlushStep \/ FillIter

\* ------------------------------------------------------------ dispatcher
\* line 367: np.frombuffer raises ValueError on a payload that is not whole samples
Raises(e) == e.type = "audio" /\ Len(e.data) % bytes_per_sample # 0

\* a handler without the try/except: what is raised leaves _on_event
EscapesUncaught(e) == e.type = "audio" /\ Len(e.data) % bytes_per_sample # 0

\* lines 353, 381-382: "except Exception" lets nothing out of _on_event
Escapes(e) == FALSE

\* an interruption declared on error events as well
DeclaresInterruptionOrError(e) == e.type \in {"audio_interrupted", "error"}

\* line 369: the branch that sets the latch
DeclaresInterruption(e) == e.type = "audio_interrupted"

\* latch_mark after a step that sets the latch: a latch that was clear is marked
\* with the number of frames enqueued so far
Marked ==
    IF history_of = "playback" /\ ~interrupt_event
    THEN <<enqueued_total>> ELSE latch_mark

\* lines 354-380: the branch of an event whose handling does not raise
on_event_body(e) ==
    IF e.type = "audio"
    THEN /\ output_queue' =
                Append(output_queue, <<frombuffer(e.data), e.item_id, e.content_index>>)
         /\ enqueued_total' = enqueued_total + 1
         /\ after_fade' = FALSE
         /\ frame_lens' = IF history_of = "playback"
                          THEN Append(frame_lens, Len(frombuffer(e.data)))
                          ELSE frame_lens
         /\ UNCHANGED <<prebuffering, interrupt_event, latch_mark>>
    ELSE IF DeclaresInterruption(e)
    THEN /\ prebuffering' = TRUE
         /\ interrupt_event' = TRUE
         /\ latch_mark' = Marked
         /\ UNCHANGED <<output_queue, enqueued_total, after_fade, frame_lens>>
    ELSE UNCHANGED <<output_queue, enqueued_total, after_fade, prebuffering,
                     interrupt_event, frame_lens, latch_mark>>

\* lines 352-382: the effect of one event; a raise is caught and the event is lost
on_event(e) ==
    IF Raises(e)
    THEN UNCHANGED <<output_queue, enqueued_total, after_fade, prebuffering,
                     interrupt_event, frame_lens, latch_mark>>
    ELSE on_event_body(e)

\* lines 279-280: the session delivers the next event and _on_event handles it
Dispatch ==
    /\ dispatching
    /\ event_count < MaxEvents
    /\ \E e \in SessionEvents(enqueued_total + 1) :
          /\ event' = e
          /\ event_count' = event_count + 1
          /\ on_event(e)
          /\ dispatching' = ~Escapes(e)
    /\ UNCHANGED <<current_audio_chunk, chunk_position, fading, fade_total_samples,
                   fade_done_samples, recent_playback_rms, outdata, samples_filled,
                   render_pc, rendered, reported>>
    /\ UNCHANGED <<captureVars, configVars>>

\* ---------------------------------------------------------- capture loop
\* loudness of the blocks the microphone delivers: 0.01, 0.03 and 0.73 of full scale
MicLevels == {328, 983, 24000}

\* an activity test that looks at the current frame only
AssistantPlayingCurrentOnly == current_audio_chunk # None

\* lines 319-321
AssistantPlaying == current_audio_chunk # None \/ output_queue # <<>>

\* a guard that ignores the playback loudness
PlaybackGuardBaseOnly(playback_rms) == ENERGY_THRESHOLD_MILLI * FULL_SCALE

\* line 331, in units of 1/(32768 * 1000)
PlaybackGuard(playback_rms) ==
    Max(ENERGY_THRESHOLD_MILLI * FULL_SCALE, playback_rms * ECHO_SUPPRESS_TENTHS * 100)

\* line 332: mic_rms >= playback_guard
AtOrAboveGuard(rms, playback_rms) == rms * 1000 >= PlaybackGuard(playback_rms)

\* a count that a block below the guard does not restart
VadAfterKeptBelowGuard(mode, playing, loud, count) ==
    IF mode = "server" THEN 0
    ELSE IF playing
         THEN IF loud THEN count + 1 ELSE count
         ELSE 0

\* a count that a block captured while nothing plays does not restart
VadAfterKeptWhenIdle(mode, playing, loud, count) ==
    IF mode = "server" THEN 0
    ELSE IF playing
         THEN IF loud THEN count + 1 ELSE 0
         ELSE count

\* lines 324-340: vad_active_frames after a block is decided
VadAfter(mode, playing, loud, count) ==
    IF mode = "server" THEN 0
    ELSE IF playing
         THEN IF loud THEN count + 1 ELSE 0
         ELSE 0

\* lines 324, 330-335: the block declares a barge-in
BargeIn(mode, playing, loud, count) ==
    /\ mode # "server"
    /\ playing
    /\ loud
    /\ count + 1 >= BARGE_IN_FRAMES_REQUIRED

\* a block sent as soon as it is loud enough, whatever the count
ForwardedFromFirstLoud(mode, playing, loud, count) ==
    \/ mode = "server"
    \/ ~playing
    \/ loud

\* a server mode that holds the microphone back while the assistant plays
ForwardedWhenIdle(mode, playing, loud, count) ==
    \/ ~playing
    \/ mode # "server" /\ loud /\ count + 1 >= BARGE_IN_FRAMES_REQUIRED

\* lines 327, 336, 341: the block is given to session.send_audio
Forwarded(mode, playing, loud, count) ==
    \/ mode = "server"
    \/ ~playing
    \/ loud /\ count + 1 >= BARGE_IN_FRAMES_REQUIRED

\* lines 316-341: one block read and decided
CaptureBlock ==
    /\ capture_pc = "loop"
    /\ recording
    /\ blocks_read < MaxBlocks
    /\ \E level \in MicLevels :
          LET samples == [i \in 1..ChunkSize |-> level]
              rms == rms_energy(samples)
              playing == AssistantPlaying
              loud == AtOrAboveGuard(rms, recent_playback_rms)
          IN /\ mic_rms' = rms
             /\ assistant_playing' = playing
             /\ blocks_read' = blocks_read + 1
             /\ qualifying_run' =
                    IF /\ barge_in_mode = "rms"
                       /\ playing
                       /\ rms * 1000 >= PlaybackGuard(recent_playback_rms)
                    THEN qualifying_run + 1 ELSE 0
             /\ vad_active_frames' =
                    VadAfter(barge_in_mode, playing, loud, vad_active_frames)
             /\ interrupt_event' =
                    IF BargeIn(barge_in_mode, playing, loud, vad_active_frames)
                    THEN TRUE ELSE interrupt_event
             /\ latch_mark' =
                    IF BargeIn(barge_in_mode, playing, loud, vad_active_frames)
                    THEN Marked ELSE latch_mark
             /\ outbound' =
                    IF /\ history_of = "outbound"
                       /\ Forwarded(barge_in_mode, playing, loud, vad_active_frames)
                    THEN Append(outbound, blocks_read + 1) ELSE outbound
    /\ UNCHANGED <<output_queue, prebuffering>>
    /\ UNCHANGED <<renderVars, dispatchVars, configVars>>

\* ------------------------------------------------------------------ spec
Next == RenderBegin \/ FlushStep \/ FadeIter \/ FadeFlushStep \/ FillIter
        \/ Dispatch \/ CaptureBlock

Spec == Init /\ [][Next]_vars

\* the audio device calls the render callback again and again, and a callback
\* in progress keeps running
FairSpec == Spec /\ WF_vars(Render)

\* -------------------------------------------------------------- shutdown
\* line 279: the session's event stream ends, or raises, and "async for" is left
SessionEnds ==
    /\ dispatching
    /\ dispatching' = FALSE
    /\ UNCHANGED <<output_queue, interrupt_event, prebuffering, event, event_count,
                   enqueued_total, frame_lens, latch_mark>>
    /\ UNCHANGED <<renderVars, captureVars, configVars>>

\* lines 281-285: run's finally stops and closes the render stream; stop() returns
\* once the callback in progress has returned
RunFinally ==
    /\ ~dispatching
    /\ audio_player = "active"
    /\ render_pc = "idle"
    /\ audio_player' = "closed"
    /\ UNCHANGED <<recording, audio_stream, capture_pc, fade_samples, barge_in_mode,
                   history_of>>
    /\ UNCHANGED <<output_queue, interrupt_event, prebuffering, latch_mark>>
    /\ UNCHANGED <<renderVars, captureVars, dispatchVars>>

\* lines 316, 327, 336, 341 and 344-350: the read or the send raises, the except
\* clause prints it and the finally stops and closes the capture stream
CaptureRaises ==
    /\ capture_pc = "loop"
    /\ capture_pc' = "raised"
    /\ audio_stream' = "closed"
    /\ UNCHANGED <<recording, audio_player, fade_samples, barge_in_mode, history_of>>
    /\ UNCHANGED <<output_queue, interrupt_event, prebuffering, latch_mark>>
    /\ UNCHANGED <<renderVars, captureVars, dispatchVars>>

\* lines 313, 343, 346-350 and 424: once run has returned, asyncio.run cancels the
\* capture task at its await, and the finally stops and closes the capture stream
CaptureCancelled ==
    /\ capture_pc = "loop"
    /\ audio_player = "closed"
    /\ capture_pc' = "cancelled"
    /\ audio_stream' = "closed"
    /\ UNCHANGED <<recording, audio_player, fade_samples, barge_in_mode, history_of>>
    /\ UNCHANGED <<output_queue, interrupt_event, prebuffering, latch_mark>>
    /\ UNCHANGED <<renderVars, captureVars, dispatchVars>>

StopNext == Next \/ SessionEnds \/ RunFinally \/ CaptureRaises \/ CaptureCancelled

\* the engine up to and including the end of the session
StopSpec == Init /\ [][StopNext]_vars

\* the same engine with what is rendered and reported recorded, in local mode,
\* the mode main builds the engine with (line 419); what the render callback
\* and the dispatcher do in server mode they also do in local mode, where the
\* capture loop may set the latch besides
PlaybackInit == Constructed /\ barge_in_mode = "rms" /\ history_of = "playback"

PlaybackSpec == PlaybackInit /\ [][Next]_vars

\* the same engine with the outbound stream recorded, in both modes and with
\* the shorter fade: no step of the capture loop reads the fade length
ForwardInit == Constructed /\ fade_samples = ChunkSize /\ history_of = "outbound"

ForwardSpec == ForwardInit /\ [][Next]_vars

\* ================================================================ claims

\* A step of a render callback that copies frame samples into outdata.
EmitsSamples == samples_filled' > samples_filled

\* C1: pre-buffer invariant.  While fewer than PREBUFFER_CHUNKS frames have been
\* enqueued in total, the output buffer holds only zeros and no frame is in
\* flight; with the latch clear no step takes a frame out of the queue; and a
\* callback that starts a frame while pre-buffering is armed observes at least
\* PREBUFFER_CHUNKS queued frames.
C1_PrebufferInvariant ==
    /\ [](enqueued_total < PREBUFFER_CHUNKS =>
             /\ outdata = Zeros
             /\ samples_filled = 0
             /\ current_audio_chunk = None)
    /\ [][(enqueued_total < PREBUFFER_CHUNKS /\ ~interrupt_event) =>
             Len(output_queue') >= Len(output_queue)]_vars
    /\ [][(prebuffering /\ current_audio_chunk = None /\ EmitsSamples) =>
             Len(output_queue) >= PREBUFFER_CHUNKS]_vars

\* a callback in its fill loop with two frames enqueued and queued, latch clear
C1_Witness ==
    /\ render_pc = "fill"
    /\ ~interrupt_event
    /\ enqueued_total = PREBUFFER_CHUNKS - 1
    /\ Len(output_queue) = PREBUFFER_CHUNKS - 1
    /\ Len(output_queue[1][1]) > 0

\* C2: every invocation of the render callback terminates.
C2_RenderTerminates == (render_pc # "idle") ~> (render_pc = "idle")

CaptureStep == blocks_read' = blocks_read + 1

\* A step of the dispatcher: one more event has been delivered and handled.
DispatchStep == event_count' = event_count + 1

\* C4: barge-in debounce.  In local mode the counter is the number of blocks
\* just captured in a row while the assistant was active and at or above the
\* guard; the capture loop sets the latch only on a block that ends a run of
\* BARGE_IN_FRAMES_REQUIRED such blocks; a block that does not qualify leaves
\* the counter at 0 and the latch as it was.
C4_BargeInDebounce ==
    /\ [](barge_in_mode = "rms" => vad_active_frames = qualifying_run)
    /\ [][CaptureStep =>
             /\ (~interrupt_event /\ interrupt_event') =>
                    /\ barge_in_mode = "rms"
                    /\ qualifying_run' >= BARGE_IN_FRAMES_REQUIRED
             /\ qualifying_run' = 0 =>
                    /\ vad_active_frames' = 0
                    /\ interrupt_event' = interrupt_event]_vars

\* the capture loop has set the latch: no event other than three audio
\* fragments was delivered, so the dispatcher never set it
C4_Witness ==
    /\ barge_in_mode = "rms"
    /\ interrupt_event
    /\ qualifying_run = BARGE_IN_FRAMES_REQUIRED
    /\ event_count = PREBUFFER_CHUNKS
    /\ enqueued_total = PREBUFFER_CHUNKS

\* C5: echo-guard scaling.  In local mode, for a block captured while the
\* assistant is active, the threshold is max(ENERGY_THRESHOLD,
\* recent_playback_rms * ECHO_SUPPRESS_MULTIPLIER): at or above it the counter is
\* incremented, below it the counter is 0 and the latch is left as it was.
C5_EchoGuardScaling ==
    [][(CaptureStep /\ barge_in_mode = "rms" /\ AssistantPlaying) =>
          LET guard == Max(ENERGY_THRESHOLD_MILLI * FULL_SCALE,
                           recent_playback_rms * ECHO_SUPPRESS_TENTHS * 100)
          IN IF mic_rms' * 1000 >= guard
             THEN vad_active_frames' = vad_active_frames + 1
             ELSE /\ vad_active_frames' = 0
                  /\ interrupt_event' = interrupt_event]_vars

\* the block last captured, while the assistant was active, was at or above the
\* base threshold and did not qualify: it was below the guard
C5_Witness ==
    /\ barge_in_mode = "rms"
    /\ blocks_read > 0
    /\ assistant_playing
    /\ mic_rms * 1000 >= ENERGY_THRESHOLD_MILLI * FULL_SCALE
    /\ qualifying_run = 0
    /\ vad_active_frames = 0
    /\ ~interrupt_event

\* C6 as stated: a block processed while the assistant is not playing, or in
\* server mode, leaves both recent_playback_rms and the counter at zero.
C6_EchoGuardStateReset ==
    [][(CaptureStep /\ (~AssistantPlaying \/ barge_in_mode = "server")) =>
          /\ vad_active_frames' = 0
          /\ recent_playback_rms' = 0]_vars

\* C6 amended: such a block leaves the counter at zero, and leaves
\* recent_playback_rms as the render callback last wrote it.
C6_CounterReset ==
    [][(CaptureStep /\ (~AssistantPlaying \/ barge_in_mode = "server")) =>
          /\ vad_active_frames' = 0
          /\ recent_playback_rms' = recent_playback_rms]_vars

\* a block was captured in local mode after playback ended, with the playback
\* loudness still above zero
C6_Witness ==
    /\ barge_in_mode = "rms"
    /\ blocks_read > 0
    /\ ~assistant_playing
    /\ ~AssistantPlaying
    /\ render_pc = "idle"
    /\ recent_playback_rms > 0
    /\ vad_active_frames = 0

\* C7: no-overflow fade bound and single computation.  While fading,
\* 0 <= fade_done_samples <= fade_total_samples <= the configured length, and
\* what is left of the fade fits in what is left of the current frame (so
\* fade_total_samples was at most the samples that remained when the fade
\* started); as long as the fade lasts fade_total_samples and the current frame
\* do not change, whatever sets the latch meanwhile, and faded samples are read
\* from the current frame only: no frame leaves the queue before the final flush.
C7_FadeBound ==
    /\ [](fading =>
             /\ 0 <= fade_done_samples
             /\ fade_done_samples <= fade_total_samples
             /\ fade_total_samples <= fade_samples
             /\ IF current_audio_chunk = None
                THEN render_pc = "fade_flush" /\ fade_done_samples = fade_total_samples
                ELSE fade_total_samples - fade_done_samples
                        <= Len(current_audio_chunk[1]) - chunk_position)
    /\ [][(fading /\ fading') =>
             /\ fade_total_samples' = fade_total_samples
             /\ current_audio_chunk' \in {current_audio_chunk, None}
             /\ (render_pc # "fade_flush" => Len(output_queue') >= Len(output_queue))]_vars

\* between two callbacks of one fade whose configured length exceeds the frame
C7_Witness ==
    /\ fading
    /\ render_pc = "idle"
    /\ fade_done_samples > 0
    /\ fade_done_samples < fade_total_samples
    /\ fade_samples > Len(current_audio_chunk[1])
    /\ output_queue # <<>>
    /\ event.type = "audio_interrupted"

\* C8: fade monotonicity.  In a fading callback the j-th sample written is the
\* frame's sample scaled by (T - k) / T, k being its offset from the start of
\* the fade (over all callbacks of the fade) and T = fade_total_samples; k
\* stays below T, so the gain falls from 1 by 1/T per sample and would be 0 at
\* offset T.  Once a fade has completed, and until a frame is enqueued, the
\* queue is empty, nothing is in flight and every write to outdata is zeros.
C8_FadeMonotone ==
    /\ [](render_pc = "fade" =>
             \A j \in 1..samples_filled :
                LET k == fade_done_samples - samples_filled + j - 1
                    src == current_audio_chunk[1][chunk_position - samples_filled + j]
                IN /\ 0 <= k
                   /\ k < fade_total_samples
                   /\ outdata[j] =
                          TruncDiv(src * (fade_total_samples - k), fade_total_samples))
    /\ [](after_fade =>
             /\ output_queue = <<>>
             /\ current_audio_chunk = None
             /\ (render_pc # "idle" => outdata = Zeros))
    /\ [][(after_fade /\ after_fade') => outdata' \in {outdata, Zeros}]_vars

\* the second callback of a fade has written a sample at an offset beyond the
\* first callback's
C8_Witness ==
    /\ render_pc = "fade"
    /\ samples_filled > 0
    /\ fade_done_samples > samples_filled
    /\ outdata # Zeros

\* C9: latch ownership.  Only the last step of a render callback clears the
\* latch; the capture loop sets it only in local mode; the dispatcher sets it
\* only on an audio_interrupted event.
C9_LatchOwnership ==
    [][/\ (interrupt_event /\ ~interrupt_event') =>
             /\ render_pc # "idle"
             /\ render_pc' = "idle"
             /\ ~CaptureStep
             /\ ~DispatchStep
       /\ (CaptureStep /\ ~interrupt_event /\ interrupt_event') =>
             barge_in_mode = "rms"
       /\ (DispatchStep /\ ~interrupt_event /\ interrupt_event') =>
             event'.type = "audio_interrupted"]_vars

\* the latch was set by the capture loop (the counter has reached the
\* requirement) and a render callback has cleared it since
C9_Witness ==
    /\ barge_in_mode = "rms"
    /\ vad_active_frames >= BARGE_IN_FRAMES_REQUIRED
    /\ ~interrupt_event
    /\ render_pc = "idle"
    /\ event_count = PREBUFFER_CHUNKS
    /\ enqueued_total = PREBUFFER_CHUNKS

\* C10: dispatcher resilience.  Every event delivered is handled by one step,
\* after which the loop is still running: a well-formed audio fragment is
\* appended to the queue as the samples it encodes, audio_interrupted sets the
\* latch and arms pre-buffering, and any other event, one whose handling raises
\* included, leaves queue, latch and pre-buffering alone; the frames in the
\* queue are in arrival order with none duplicated or missing.
C10_DispatcherResilience ==
    /\ [](\A i \in 1..Len(output_queue) :
             output_queue[i][2] = enqueued_total - Len(output_queue) + i)
    /\ [][DispatchStep =>
             /\ dispatching'
             /\ IF event'.type = "audio" /\ Len(event'.data) % 2 = 0
                THEN /\ output_queue' =
                            Append(output_queue,
                                   <<SpeechPCM(Len(event'.data) \div 2),
                                     enqueued_total + 1, (enqueued_total + 1) % 2>>)
                     /\ enqueued_total' = enqueued_total + 1
                     /\ interrupt_event' = interrupt_event
                ELSE IF event'.type = "audio_interrupted"
                THEN /\ interrupt_event'
                     /\ prebuffering'
                     /\ output_queue' = output_queue
                ELSE /\ output_queue' = output_queue
                     /\ interrupt_event' = interrupt_event
                     /\ prebuffering' = prebuffering
                     /\ enqueued_total' = enqueued_total]_vars

\* the event just handled raised, two fragments enqueued before it are queued
\* untouched, and the loop is running with events left to deliver
C10_Witness ==
    /\ event.type = "audio"
    /\ Len(event.data) % 2 = 1
    /\ dispatching
    /\ event_count = PREBUFFER_CHUNKS
    /\ Len(output_queue) = PREBUFFER_CHUNKS - 1
    /\ enqueued_total = PREBUFFER_CHUNKS - 1

\* C11: local-mode forwarding rule.  In local mode the block just read is
\* appended to the outbound stream exactly when the assistant was not active
\* as it was processed or the counter has reached BARGE_IN_FRAMES_REQUIRED with
\* it; otherwise the stream is left as it was.  Only the capture loop extends
\* the stream, by the block just read and never by an earlier one, so the
\* stream is in capture order.
C11_LocalForwarding ==
    /\ [][(CaptureStep /\ barge_in_mode = "rms") =>
             IF ~AssistantPlaying \/ vad_active_frames' >= BARGE_IN_FRAMES_REQUIRED
             THEN outbound' = Append(outbound, blocks_read')
             ELSE outbound' = outbound]_vars
    /\ [][~CaptureStep => outbound' = outbound]_vars
    /\ [](\A i \in 1..Len(outbound) :
             /\ outbound[i] \in 1..blocks_read
             /\ i > 1 => outbound[i - 1] < outbound[i])

\* three qualifying blocks were held back and the fourth, which declared the
\* barge-in, is the only one sent
C11_Witness ==
    /\ barge_in_mode = "rms"
    /\ blocks_read = BARGE_IN_FRAMES_REQUIRED
    /\ vad_active_frames = BARGE_IN_FRAMES_REQUIRED
    /\ interrupt_event
    /\ outbound = <<BARGE_IN_FRAMES_REQUIRED>>

\* C12: server mode.  Every block read is forwarded, whatever its loudness and
\* whatever is playing; the capture loop never sets the latch, which is set
\* only by the dispatcher handling audio_interrupted.
C12_ServerMode ==
    /\ [](barge_in_mode = "server" =>
             /\ Len(outbound) = blocks_read
             /\ \A i \in 1..blocks_read : outbound[i] = i)
    /\ [][(barge_in_mode = "server" /\ ~interrupt_event /\ interrupt_event') =>
             /\ ~CaptureStep
             /\ DispatchStep
             /\ event'.type = "audio_interrupted"]_vars

\* in server mode a loud block and a quiet one were read while the assistant
\* was active, both were forwarded and the latch is clear
C12_Witness ==
    /\ barge_in_mode = "server"
    /\ blocks_read >= 2
    /\ assistant_playing
    /\ AssistantPlaying
    /\ mic_rms * 1000 >= PlaybackGuard(recent_playback_rms)
    /\ recent_playback_rms > 0
    /\ Len(outbound) = blocks_read
    /\ ~interrupt_event

\* C13: interrupt response.  Under fair scheduling of the render callback every
\* setting of the latch is eventually followed by its clearing.
C13_InterruptResponse == interrupt_event ~> ~interrupt_event

\* C14: cursor invariant.  There is no current frame or exactly one;
\* chunk_position is 0 without a current frame and otherwise between 0 and the
\* length of the current frame's samples; and a step that changes the cursor,
\* the current frame or the fade state is a step of the render callback, never
\* one of the capture loop or the dispatcher.
C14_CursorInvariant ==
    /\ [](IF current_audio_chunk = None
          THEN chunk_position = 0
          ELSE /\ Len(current_audio_chunk) = 3
               /\ 0 <= chunk_position
               /\ chunk_position <= Len(current_audio_chunk[1]))
    /\ [][(<<current_audio_chunk, chunk_position, fading, fade_total_samples,
              fade_done_samples>>' #
            <<current_audio_chunk, chunk_position, fading, fade_total_samples,
              fade_done_samples>>) =>
             /\ ~CaptureStep
             /\ ~DispatchStep
             /\ render_pc # "idle" \/ render_pc' # "idle"]_vars

\* between two callbacks, a frame is part played while blocks were captured
\* and an interruption was delivered
C14_Witness ==
    /\ render_pc = "idle"
    /\ current_audio_chunk # None
    /\ chunk_position > 0
    /\ chunk_position < Len(current_audio_chunk[1])
    /\ fading
    /\ blocks_read > 0
    /\ event.type = "audio_interrupted"

\* C15: stream release on stop.  Once run has released the render stream the
\* session's events are over and the recording flag is down, so that the
\* capture loop stops; and whenever the capture loop has been left, by whatever
\* path, the capture stream is stopped and closed.
C15_StreamRelease ==
    /\ audio_player = "closed" => (~dispatching /\ ~recording)
    /\ capture_pc # "loop" => audio_stream = "closed"

\* <<item_id, index>> of every sample of the first n frames enqueued, in order
RECURSIVE SamplesUpTo(_, _)
SamplesUpTo(lens, n) ==
    IF n = 0 THEN <<>>
    ELSE SamplesUpTo(lens, n - 1) \o [k \in 1..lens[n] |-> <<n, k>>]

\* C16: FIFO playback without loss.  As long as the latch has never been set,
\* the frame samples written by the callbacks so far are, in order, a prefix of
\* the samples of the enqueued frames in enqueue order (so frames are taken in
\* FIFO order, no sample is written twice or skipped, and a frame cut by the end
\* of a buffer goes on where it stopped); and the buffer of the callback holds
\* the values of the last samples_filled of them, followed by zeros.
C16_FifoPlayback ==
    [](latch_mark = None =>
          LET all == SamplesUpTo(frame_lens, Len(frame_lens))
          IN /\ Len(rendered) <= Len(all)
             /\ rendered = SubSeq(all, 1, Len(rendered))
             /\ samples_filled <= Len(rendered)
             /\ \A j \in 1..Len(outdata) :
                   outdata[j] =
                      IF j <= samples_filled
                      THEN SpeechSample(rendered[Len(rendered) - samples_filled + j][2])
                      ELSE 0)

\* the latch was never set, the first frame was played over three callbacks
\* and the second one is part played
C16_Witness ==
    /\ latch_mark = None
    /\ render_pc = "idle"
    /\ current_audio_chunk # None
    /\ current_audio_chunk[2] > 1
    /\ chunk_position > 0
    /\ Len(rendered) > MaxFrameLen
    /\ samples_filled = ChunkSize

\* bytes reported for the frame with this id by the calls of on_play_bytes
RECURSIVE BytesReported(_, _)
BytesReported(calls, id) ==
    IF calls = <<>> THEN 0
    ELSE (IF Head(calls)[1] = id THEN Head(calls)[3] ELSE 0)
         + BytesReported(Tail(calls), id)

\* samples of the frame with this id that were written to the output
SamplesRendered(id) == Cardinality({i \in 1..Len(rendered) : rendered[i][1] = id})

\* C17: playback progress accounting.  A step that writes frame samples to the
\* output writes one contiguous range of one frame and makes exactly one call of
\* on_play_bytes, with that frame's id and content index and 2 bytes per sample
\* written; no other step makes a call (silence and flushed frames are never
\* reported); no sample is written twice; so for every frame the bytes reported
\* are 2 * the samples of it that were rendered, at most 2 * its length.
C17_PlayBytesAccounting ==
    /\ [][(rendered' # rendered \/ reported' # reported) =>
             LET was == Len(rendered)
                 n == Len(rendered') - was
                 first == rendered'[was + 1]
             IN /\ n > 0
                /\ SubSeq(rendered', 1, was) = rendered
                /\ \A i \in 1..n : rendered'[was + i] = <<first[1], first[2] + i - 1>>
                /\ reported' =
                       Append(reported,
                              <<first[1], first[1] % 2, bytes_per_sample * n>>)]_vars
    /\ [](\A i, j \in 1..Len(rendered) : rendered[i] = rendered[j] => i = j)
    /\ [](\A id \in 1..Len(frame_lens) :
             /\ BytesReported(reported, id) = bytes_per_sample * SamplesRendered(id)
             /\ BytesReported(reported, id) <= bytes_per_sample * frame_lens[id])
    /\ [](\A i \in 1..Len(reported) : reported[i][1] \in 1..Len(frame_lens))

\* an interruption was resolved by a fade: the first frame was cut short after
\* a faded range was reported, and the frames behind it were flushed unreported
C17_Witness ==
    /\ after_fade
    /\ render_pc = "idle"
    /\ fade_done_samples > 0
    /\ Len(frame_lens) = PREBUFFER_CHUNKS
    /\ Len(reported) >= 2
    /\ BytesReported(reported, 1) > 0
    /\ BytesReported(reported, 1) < bytes_per_sample * frame_lens[1]
    /\ BytesReported(reported, 2) = 0

\* Pre-buffering is armed, the latch is clear and the queue holds at least one
\* frame but fewer than the target.
Stalled ==
    /\ prebuffering
    /\ ~interrupt_event
    /\ Len(output_queue) >= 1
    /\ Len(output_queue) < PREBUFFER_CHUNKS

\* C18: pre-buffer stall.  In a stalled state no frame is in flight, and every
\* step that neither enqueues a frame nor sets the latch leads to a stalled
\* state again with the queue untouched and no frame sample written; a block
\* captured by such a step finds the assistant active and, in local mode and
\* below the guard, is not forwarded.  So without a further frame or an
\* interruption the stall lasts for ever.
C18_PrebufferStall ==
    /\ [](Stalled => current_audio_chunk = None)
    /\ [][(Stalled /\ enqueued_total' = enqueued_total /\ ~interrupt_event') =>
             /\ Stalled'
             /\ output_queue' = output_queue
             /\ current_audio_chunk' = None
             /\ ~EmitsSamples
             /\ outdata' \in {outdata, Zeros}
             /\ CaptureStep =>
                   /\ assistant_playing'
                   /\ (/\ barge_in_mode = "rms"
                       /\ mic_rms' * 1000 <
                             Max(ENERGY_THRESHOLD_MILLI * FULL_SCALE,
                                 recent_playback_rms * ECHO_SUPPRESS_TENTHS * 100))
                          => outbound' = outbound]_vars

\* two frames are queued behind the armed pre-buffer, a callback is running,
\* and of the blocks captured meanwhile in local mode, the last one quiet, none
\* was forwarded
C18_Witness ==
    /\ Stalled
    /\ Len(output_queue) = PREBUFFER_CHUNKS - 1
    /\ render_pc = "fill"
    /\ barge_in_mode = "rms"
    /\ blocks_read >= 2
    /\ assistant_playing
    /\ mic_rms * 1000 < ENERGY_THRESHOLD_MILLI * FULL_SCALE
    /\ outbound = <<>>

RenderStep ==
    /\ ~CaptureStep
    /\ ~DispatchStep
    /\ <<render_pc, samples_filled, output_queue, current_audio_chunk>>' #
       <<render_pc, samples_filled, output_queue, current_audio_chunk>>

\* C20: pre-buffering re-arm points.  Pre-buffering goes from off to armed only
\* in the step of a render callback that clears the latch or in the
\* dispatcher's step for audio_interrupted; a fill loop that finds the queue
\* empty leaves it off; and with it off, a fill loop without a current frame
\* takes a single queued frame at once and writes its first samples.
C20_RearmPoints ==
    /\ [][(~prebuffering /\ prebuffering') =>
             \/ /\ RenderStep
                /\ interrupt_event
                /\ ~interrupt_event'
             \/ /\ DispatchStep
                /\ event'.type = "audio_interrupted"]_vars
    /\ [][(/\ RenderStep
           /\ render_pc = "fill"
           /\ samples_filled < Len(outdata)
           /\ current_audio_chunk = None
           /\ ~prebuffering) =>
             /\ ~prebuffering'
             /\ IF output_queue = <<>>
                THEN render_pc' = "idle" /\ samples_filled' = samples_filled
                ELSE /\ output_queue' = Tail(output_queue)
                     /\ Len(output_queue[1][1]) > 0 =>
                           /\ EmitsSamples
                           /\ outdata'[samples_filled + 1] = output_queue[1][1][1]]_vars

\* no interruption was ever declared (server mode, four audio events); the
\* fourth frame fills a whole buffer from its first sample, so it was taken
\* alone from the queue by a callback that began without a current frame,
\* after the three frames before it had run out
C20_Witness ==
    /\ barge_in_mode = "server"
    /\ event_count = PREBUFFER_CHUNKS + 1
    /\ enqueued_total = PREBUFFER_CHUNKS + 1
    /\ ~prebuffering
    /\ ~interrupt_event
    /\ current_audio_chunk # None
    /\ current_audio_chunk[2] = PREBUFFER_CHUNKS + 1
    /\ chunk_position = ChunkSize
    /\ samples_filled = ChunkSize
    /\ output_queue = <<>>

=============================================================================
